---- MODULE Spec2Model ----
(***************************************************************************)
(* The Agent Times earn ledger (src/earn.py): submit_claim and             *)
(* reject_agent_claims acting on the JSON claims document, each call       *)
(* a thread of its own with no lock around load -> check -> save.          *)
(***************************************************************************)
EXTENDS Integers, Sequences, FiniteSets, TLC

\* ------------------------------------------------------------------------
\* Bounds of the model
\* ------------------------------------------------------------------------
NCalls == 3
NThreads == 2
MaxTicks == 1
\* the largest limit a leaderboard request is meant to ask for
MaxLimit == 2

\* ------------------------------------------------------------------------
\* Program constants
\* ------------------------------------------------------------------------
MAX_CLAIMS_PER_AGENT_PER_HOUR == 10
WindowSeconds == 3600
SecondsPerDay == 86400

VALID_PLATFORMS == {"x", "moltbook", "linkedin", "bluesky", "reddit", "telegram", "other"}

RATES ==
    [article_published |-> 5000, bounty_published |-> 10000,
     citations_100 |-> 5000, citations_1000 |-> 25000,
     link_post |-> 500, commentary |-> 1000, cross_post |-> 1500,
     impressions_100 |-> 1000, reposts_10 |-> 2500]

\* data.ARTICLES as the catalog answers: the known ids and the known urls' slugs
KnownSlugs == {"a1", "a2"}

Calls == 1..NCalls
TickSteps == {3600, 86400}

\* ------------------------------------------------------------------------
\* Strings and time
\* ------------------------------------------------------------------------
\* str.lower() on the names and platforms that occur
Lower(s) ==
    CASE s = "Bot" -> "bot"
      [] s = "X" -> "x"
      [] OTHER -> s

\* str.strip() on the strings that occur
Strip(s) == IF s = " " THEN "" ELSE s

\* datetime.isoformat(): the date part and the time-of-day part
IsoFormat(t) == <<t \div SecondsPerDay, t % SecondsPerDay>>

\* datetime.fromisoformat(s).timestamp()
FromIso(iso) == iso[1] * SecondsPerDay + iso[2]

\* now.strftime("%Y-%m-%d")
DateOf(t) == t \div SecondsPerDay

NoStamp == <<>>
NoReason == ""

\* ------------------------------------------------------------------------
\* The persisted document
\* ------------------------------------------------------------------------
_empty_data ==
    [claims |-> <<>>,
     totals |-> [claims_count |-> 0, sats_pending |-> 0, sats_paid |-> 0],
     banned_agents |-> <<>>,
     rate_limits |-> <<>>]

\* a dict from agent name to list of stamps, as a sequence of <<key, list>>
\* pairs in insertion order (json keeps the order of keys)
DictHas(d, k) == \E i \in 1..Len(d) : d[i][1] = k

DictGet(d, k) ==
    IF DictHas(d, k)
    THEN (CHOOSE v \in {d[i][2] : i \in {j \in 1..Len(d) : d[j][1] = k}} : TRUE)
    ELSE <<>>

DictSet(d, k, v) ==
    IF DictHas(d, k)
    THEN [i \in 1..Len(d) |-> IF d[i][1] = k THEN <<k, v>> ELSE d[i]]
    ELSE Append(d, <<k, v>>)

DictDel(d, k) == SelectSeq(d, LAMBDA e : e[1] # k)

\* ------------------------------------------------------------------------
\* The document as JSON text
\* ------------------------------------------------------------------------
\* A JSON object is the function from the keys written to their values, an
\* array is a sequence, strings and numbers stand for themselves.
JsonHas(obj, k) == k \in DOMAIN obj

\* dict.get(k, default) on a parsed object
JsonGet(obj, k, default) == IF JsonHas(obj, k) THEN obj[k] ELSE default

\* the keys submit_claim gives a claim, and those reject_agent_claims adds
ClaimKeys ==
    {"claim_id", "agent_name", "article_url", "posts", "claim_type",
     "sats_claimed", "status", "date", "submitted_at"}

StampKeys == {"rejected_reason", "rejected_at"}

\* a claim as written without its rejection stamp
JsonDumpClaimNoStamp(claim) == [k \in ClaimKeys |-> claim[k]]

\* a claim dict as json.dump writes it: the keys it has
JsonDumpClaim(claim) ==
    [k \in ClaimKeys \cup (IF claim.rejected_at # <<>> THEN StampKeys ELSE {}) |-> claim[k]]

\* the claim json.load gives back, its absent keys read with claim.get
JsonLoadClaim(obj) ==
    [claim_id |-> JsonGet(obj, "claim_id", 0),
     agent_name |-> JsonGet(obj, "agent_name", ""),
     article_url |-> JsonGet(obj, "article_url", [scheme |-> "", host |-> "", path |-> <<>>]),
     posts |-> JsonGet(obj, "posts", <<>>),
     claim_type |-> JsonGet(obj, "claim_type", ""),
     sats_claimed |-> JsonGet(obj, "sats_claimed", 0),
     status |-> JsonGet(obj, "status", ""),
     date |-> JsonGet(obj, "date", 0),
     submitted_at |-> JsonGet(obj, "submitted_at", <<>>),
     rejected_reason |-> JsonGet(obj, "rejected_reason", NoReason),
     rejected_at |-> JsonGet(obj, "rejected_at", NoStamp)]

\* json.dump(data, f) of _save_claims
_save_claims(data) ==
    [claims |-> [i \in 1..Len(data.claims) |-> JsonDumpClaim(data.claims[i])],
     totals |-> [claims_count |-> data.totals.claims_count,
                 sats_pending |-> data.totals.sats_pending,
                 sats_paid |-> data.totals.sats_paid],
     banned_agents |-> data.banned_agents,
     rate_limits |-> data.rate_limits]

\* json.load(f) of _load_claims, with the two keys added when they are absent
JsonLoad(text) ==
    [claims |-> [i \in 1..Len(JsonGet(text, "claims", <<>>)) |->
                    JsonLoadClaim(JsonGet(text, "claims", <<>>)[i])],
     totals |-> [claims_count |-> JsonGet(JsonGet(text, "totals", <<>>), "claims_count", 0),
                 sats_pending |-> JsonGet(JsonGet(text, "totals", <<>>), "sats_pending", 0),
                 sats_paid |-> JsonGet(JsonGet(text, "totals", <<>>), "sats_paid", 0)],
     banned_agents |-> JsonGet(text, "banned_agents", <<>>),
     rate_limits |-> JsonGet(text, "rate_limits", <<>>)]

\* ------------------------------------------------------------------------
\* Validator
\* ------------------------------------------------------------------------
NoUrl == [scheme |-> "", host |-> "", path |-> <<>>]

_validate_url(url, must_contain) ==
    /\ url.scheme \in {"http", "https"}
    /\ url.host # ""
    /\ \/ must_contain = ""
       \/ url.host = must_contain
       \/ \E i \in 1..Len(url.path) : url.path[i] = must_contain

_validate_lightning_address(addr) ==
    addr \in {"bot@ln.co", "lnurl1dp68gurn8ghj7"}

_extract_article_slug(url) ==
    IF Len(url.path) > 0 THEN url.path[Len(url.path)] ELSE ""

RECURSIVE PostErrors(_, _)
PostErrors(posts, i) ==
    IF i > Len(posts) THEN <<>>
    ELSE (IF Lower(posts[i].platform) \notin VALID_PLATFORMS
          THEN <<"post_platform">> ELSE <<>>)
         \o (IF ~_validate_url(posts[i].url, "")
             THEN <<"post_url">> ELSE <<>>)
         \o PostErrors(posts, i + 1)

ArticleSlugOf(body) ==
    IF Strip(body.article_slug) # "" THEN Strip(body.article_slug)
    ELSE IF body.article_url # NoUrl THEN _extract_article_slug(body.article_url)
    ELSE ""

\* the validation that returns at the first failing check
ValidationErrorsFirstOnly(body) ==
    IF Strip(body.agent_name) = "" THEN <<"agent_name_required">>
    ELSE IF Strip(body.lightning_address) = "" THEN <<"lightning_address_required">>
    ELSE IF ~_validate_lightning_address(Strip(body.lightning_address))
    THEN <<"lightning_address_invalid">>
    ELSE IF body.article_url = NoUrl THEN <<"article_url_required">>
    ELSE IF ~_validate_url(body.article_url, "theagenttimes.com")
    THEN <<"article_url_invalid">>
    ELSE IF Len(body.posts) = 0 THEN <<"posts_required">>
    ELSE IF PostErrors(body.posts, 1) # <<>> THEN <<Head(PostErrors(body.posts, 1))>>
    ELSE IF Strip(body.claim_type) = "" THEN <<"claim_type_required">>
    ELSE IF Strip(body.claim_type) \notin DOMAIN RATES THEN <<"claim_type_invalid">>
    ELSE IF ArticleSlugOf(body) = "" THEN <<"article_slug_required">>
    ELSE <<>>

ValidationErrors(body) ==
    (IF Strip(body.agent_name) = "" THEN <<"agent_name_required">> ELSE <<>>)
    \o (IF Strip(body.lightning_address) = "" THEN <<"lightning_address_required">>
        ELSE IF ~_validate_lightning_address(Strip(body.lightning_address))
        THEN <<"lightning_address_invalid">> ELSE <<>>)
    \o (IF body.article_url = NoUrl THEN <<"article_url_required">>
        ELSE IF ~_validate_url(body.article_url, "theagenttimes.com")
        THEN <<"article_url_invalid">> ELSE <<>>)
    \o (IF Len(body.posts) = 0 THEN <<"posts_required">>
        ELSE PostErrors(body.posts, 1))
    \o (IF Strip(body.claim_type) = "" THEN <<"claim_type_required">>
        ELSE IF Strip(body.claim_type) \notin DOMAIN RATES
        THEN <<"claim_type_invalid">> ELSE <<>>)
    \o (IF ArticleSlugOf(body) = "" THEN <<"article_slug_required">> ELSE <<>>)

\* ------------------------------------------------------------------------
\* Fraud guard
\* ------------------------------------------------------------------------
\* the ban check comparing the names as written
CheckBannedExact(data, agent_name) ==
    \E i \in 1..Len(data.banned_agents) : data.banned_agents[i] = agent_name

_check_banned(data, agent_name) ==
    \E i \in 1..Len(data.banned_agents) :
        Lower(data.banned_agents[i]) = Lower(agent_name)

\* the stamps of the window that are kept: ts > hour_ago
\* the stamps kept with the boundary included: ts >= hour_ago
RecentInclusive(timestamps, t) ==
    SelectSeq(timestamps, LAMBDA s : FromIso(s) >= t - WindowSeconds)

Recent(timestamps, t) ==
    SelectSeq(timestamps, LAMBDA s : FromIso(s) > t - WindowSeconds)

\* the document after _check_rate_limit has pruned the agent's window in place
_check_rate_limit(data, agent_name, t) ==
    [data EXCEPT !.rate_limits =
        DictSet(@, agent_name, Recent(DictGet(@, agent_name), t))]

\* the cap compared with > in place of >=
RateExceededOffByOne(data, agent_name) ==
    Len(DictGet(data.rate_limits, agent_name)) > MAX_CLAIMS_PER_AGENT_PER_HOUR

RateExceeded(data, agent_name) ==
    Len(DictGet(data.rate_limits, agent_name)) >= MAX_CLAIMS_PER_AGENT_PER_HOUR

\* the acceptance that leaves the agent's window as it was
RecordClaimSkipped(data, agent_name, t) == data

_record_claim_for_rate_limit(data, agent_name, t) ==
    [data EXCEPT !.rate_limits =
        DictSet(@, agent_name, Append(DictGet(@, agent_name), IsoFormat(t)))]

\* the error _validate_article_slug returns, "" for None
_validate_article_slug(article_url) ==
    IF _extract_article_slug(article_url) = "" THEN "no_slug_in_url"
    ELSE IF _extract_article_slug(article_url) \notin KnownSlugs THEN "unknown_article"
    ELSE ""

_check_duplicate(data, article_url, platform, agent_name, t) ==
    \E i \in 1..Len(data.claims) :
        /\ data.claims[i].article_url = article_url
        /\ data.claims[i].agent_name = agent_name
        /\ data.claims[i].date = DateOf(t)
        /\ \E j \in 1..Len(data.claims[i].posts) :
              data.claims[i].posts[j].platform = platform

AnyDuplicate(data, body, agent_name, t) ==
    \E j \in 1..Len(body.posts) :
        _check_duplicate(data, body.article_url, Lower(body.posts[j].platform),
                         agent_name, t)

\* ------------------------------------------------------------------------
\* Building and storing a claim
\* ------------------------------------------------------------------------
\* the claim built with the link_post amount whatever its claim_type
BuildClaimFlatRate(body, claim_id, t) ==
    [claim_id |-> claim_id,
     agent_name |-> Strip(body.agent_name),
     article_url |-> body.article_url,
     posts |-> body.posts,
     claim_type |-> Strip(body.claim_type),
     sats_claimed |-> RATES["link_post"],
     status |-> "pending_verification",
     date |-> DateOf(t),
     submitted_at |-> IsoFormat(t),
     rejected_reason |-> NoReason,
     rejected_at |-> NoStamp]

BuildClaim(body, claim_id, t) ==
    [claim_id |-> claim_id,
     agent_name |-> Strip(body.agent_name),
     article_url |-> body.article_url,
     posts |-> body.posts,
     claim_type |-> Strip(body.claim_type),
     sats_claimed |-> RATES[Strip(body.claim_type)],
     status |-> "pending_verification",
     date |-> DateOf(t),
     submitted_at |-> IsoFormat(t),
     rejected_reason |-> NoReason,
     rejected_at |-> NoStamp]

\* the running totals with the pending amount left as it was
AddToTotalsCountOnly(totals, sats) ==
    [totals EXCEPT !.claims_count = @ + 1]

AddToTotals(totals, sats) ==
    [totals EXCEPT !.claims_count = @ + 1, !.sats_pending = @ + sats]

StoreClaim(data, claim, t) ==
    _record_claim_for_rate_limit(
        [data EXCEPT !.claims = Append(@, claim),
                     !.totals = AddToTotals(@, claim.sats_claimed)],
        claim.agent_name, t)

\* ------------------------------------------------------------------------
\* Admin action
\* ------------------------------------------------------------------------
\* the rejection loop without the skip of claims already rejected
IsTargetAnyStatus(claim, agent_name) ==
    Lower(claim.agent_name) = Lower(agent_name)

IsTarget(claim, agent_name) ==
    /\ Lower(claim.agent_name) = Lower(agent_name)
    /\ claim.status # "rejected"

\* the rejection loop taking the amount of a rejected claim to zero
RejectClaimsZeroAmount(claims, agent_name, reason, t) ==
    [i \in 1..Len(claims) |->
        IF IsTarget(claims[i], agent_name)
        THEN [claims[i] EXCEPT !.status = "rejected",
                               !.sats_claimed = 0,
                               !.rejected_reason = reason,
                               !.rejected_at = IsoFormat(t)]
        ELSE claims[i]]

RejectClaims(claims, agent_name, reason, t) ==
    [i \in 1..Len(claims) |->
        IF IsTarget(claims[i], agent_name)
        THEN [claims[i] EXCEPT !.status = "rejected",
                               !.rejected_reason = reason,
                               !.rejected_at = IsoFormat(t)]
        ELSE claims[i]]

RECURSIVE SumSats(_, _)
SumSats(claims, status) ==
    IF Len(claims) = 0 THEN 0
    ELSE (IF Head(claims).status = status THEN Head(claims).sats_claimed ELSE 0)
         + SumSats(Tail(claims), status)

\* the recount with claims_count counting only the claims not rejected
RecalcTotalsLiveCount(claims) ==
    [claims_count |-> Cardinality({i \in 1..Len(claims) : claims[i].status # "rejected"}),
     sats_pending |-> SumSats(claims, "pending_verification"),
     sats_paid |-> SumSats(claims, "paid")]

RecalcTotals(claims) ==
    [claims_count |-> Len(claims),
     sats_pending |-> SumSats(claims, "pending_verification"),
     sats_paid |-> SumSats(claims, "paid")]

AddBan(banned, agent_name) ==
    IF \E i \in 1..Len(banned) : Lower(banned[i]) = Lower(agent_name)
    THEN banned
    ELSE Append(banned, agent_name)

ClearRate(rate_limits, agent_name) == DictDel(rate_limits, agent_name)

RejectedCount(claims, agent_name) ==
    Cardinality({i \in 1..Len(claims) : IsTarget(claims[i], agent_name)})

\* the forfeited amount summed over all of the agent's claims
RECURSIVE SatsForfeitedAll(_, _)
SatsForfeitedAll(claims, agent_name) ==
    IF Len(claims) = 0 THEN 0
    ELSE (IF IsTargetAnyStatus(Head(claims), agent_name) THEN Head(claims).sats_claimed ELSE 0)
         + SatsForfeitedAll(Tail(claims), agent_name)

RECURSIVE SatsForfeited(_, _)
SatsForfeited(claims, agent_name) ==
    IF Len(claims) = 0 THEN 0
    ELSE (IF IsTarget(Head(claims), agent_name) THEN Head(claims).sats_claimed ELSE 0)
         + SatsForfeited(Tail(claims), agent_name)

\* the rejection that sets the status and leaves the claims unstamped
RejectDataUnstamped(data, agent_name, reason, t) ==
    [claims |-> [i \in 1..Len(data.claims) |->
                    IF IsTarget(data.claims[i], agent_name)
                    THEN [data.claims[i] EXCEPT !.status = "rejected"]
                    ELSE data.claims[i]],
     totals |-> RecalcTotals(RejectClaims(data.claims, agent_name, reason, t)),
     banned_agents |-> AddBan(data.banned_agents, agent_name),
     rate_limits |-> ClearRate(data.rate_limits, agent_name)]

RejectData(data, agent_name, reason, t) ==
    [claims |-> RejectClaims(data.claims, agent_name, reason, t),
     totals |-> RecalcTotals(RejectClaims(data.claims, agent_name, reason, t)),
     banned_agents |-> AddBan(data.banned_agents, agent_name),
     rate_limits |-> ClearRate(data.rate_limits, agent_name)]

\* ------------------------------------------------------------------------
\* Inputs
\* ------------------------------------------------------------------------
Url(path) == [scheme |-> "https", host |-> "theagenttimes.com", path |-> path]
A1 == Url(<<"a1">>)
A2 == Url(<<"news", "a2">>)
ZZ == Url(<<"zz">>)

Post(platform) ==
    [platform |-> platform,
     url |-> [scheme |-> "https", host |-> "social.example", path |-> <<"p">>]]

Body(agent_name, article_url, posts, claim_type) ==
    [agent_name |-> agent_name,
     lightning_address |-> "bot@ln.co",
     article_url |-> article_url,
     posts |-> posts,
     claim_type |-> claim_type,
     article_slug |-> ""]

Bodies ==
    {Body("bot", A1, <<Post("x")>>, "link_post"),
     Body("bot", A2, <<Post("x")>>, "commentary"),
     Body("Bot", A1, <<Post("x")>>, "link_post"),
     Body("amy", A1, <<Post("X")>>, "link_post"),
     Body("amy", ZZ, <<Post("x")>>, "link_post"),
     Body("", NoUrl, <<>>, "tip")}

RejectArgs == {"bot", "Bot"}

\* the ledger after nine accepted claims of bot at time 0
SeedBodies ==
    <<Body("bot", A1, <<Post("linkedin")>>, "link_post"),
      Body("bot", A1, <<Post("bluesky")>>, "link_post"),
      Body("bot", A1, <<Post("reddit")>>, "link_post"),
      Body("bot", A1, <<Post("telegram")>>, "link_post"),
      Body("bot", A1, <<Post("other")>>, "link_post"),
      Body("bot", A2, <<Post("linkedin")>>, "link_post"),
      Body("bot", A2, <<Post("bluesky")>>, "link_post"),
      Body("bot", A2, <<Post("reddit")>>, "link_post"),
      Body("bot", A2, <<Post("telegram")>>, "link_post")>>

RECURSIVE SeedData(_)
SeedData(n) ==
    IF n = 0 THEN _empty_data
    ELSE StoreClaim(_check_rate_limit(SeedData(n - 1), SeedBodies[n].agent_name, 0),
                    BuildClaim(SeedBodies[n], n, 0), 0)

InitFiles == {_empty_data, SeedData(Len(SeedBodies))}

\* ------------------------------------------------------------------------
\* State
\* ------------------------------------------------------------------------
VARIABLES
    file,      \* the claims document CLAIMS_FILE holds, as json.load reads it
    torn,      \* TRUE while CLAIMS_FILE is truncated or partly written
    writing,   \* the calls that have opened CLAIMS_FILE for writing
    now,       \* the wall clock, in seconds
    ticks,     \* how often the clock has advanced
    uuid,      \* the next fresh claim id
    pc,        \* where each call stands
    op,        \* which operation each call is
    arg,       \* each call's argument: the body, or the agent name
    data,      \* each call's loaded copy of the document
    result,    \* what each call returns
    accepted   \* every claim an acceptance was returned for

vars == <<file, torn, writing, now, ticks, uuid, pc, op, arg, data, result, accepted>>

NoResult ==
    [status |-> "", errors |-> <<>>, claim_id |-> 0, sats_claimed |-> 0,
     claims_rejected |-> 0, sats_forfeited |-> 0,
     new_totals |-> _empty_data.totals, leaderboard |-> <<>>, projection |-> <<>>]

\* the error result with a policy reason merged into the list
ErrorResultMerged(errors) ==
    [NoResult EXCEPT !.status = "error", !.errors = errors \o <<"duplicate">>]

ErrorResult(errors) == [NoResult EXCEPT !.status = "error", !.errors = errors]

\* _load_claims: the parsed document, or the empty one when json.load fails
_load_claims == IF torn THEN _empty_data ELSE file

InitFrom(files) ==
    /\ file \in files
    /\ torn = FALSE
    /\ writing = {}
    /\ now = 0
    /\ ticks = 0
    /\ uuid = Len(file.claims) + 1
    /\ pc = [c \in Calls |-> "idle"]
    /\ op = [c \in Calls |-> ""]
    /\ arg = [c \in Calls |-> ""]
    /\ data = [c \in Calls |-> _empty_data]
    /\ result = [c \in Calls |-> NoResult]
    /\ accepted = {file.claims[i] : i \in 1..Len(file.claims)}

Init == InitFrom(InitFiles)

\* Each call takes one step per access to the claims file: the step that
\* loads it carries the checks made on the loaded copy, the step that saves
\* it carries the changes made to the copy before. The clock is read once
\* per step. A save replaces the whole document in one step; where the
\* opening of the file is a step of its own (SpecIO), the file is torn from
\* the opening to the end of the dump.

\* calls are numbered in the order they arrive
MayStart(c) ==
    /\ pc[c] = "idle"
    /\ \A o \in Calls : o < c => pc[o] # "idle"

\* submit_claim with the catalog check moved before the rate limit
SubmitCallCatalogFirst(c, body) ==
    /\ MayStart(c)
    /\ op' = [op EXCEPT ![c] = "submit"]
    /\ arg' = [arg EXCEPT ![c] = body]
    /\ LET agent_name == Strip(body.agent_name)
           loaded == _load_claims
           pruned == _check_rate_limit(loaded, agent_name, now)
       IN  IF ValidationErrors(body) # <<>>
           THEN /\ result' = [result EXCEPT ![c] = ErrorResult(ValidationErrors(body))]
                /\ pc' = [pc EXCEPT ![c] = "done"]
                /\ data' = data
           ELSE IF _check_banned(loaded, agent_name)
           THEN /\ result' = [result EXCEPT ![c] = ErrorResult(<<"ban">>)]
                /\ pc' = [pc EXCEPT ![c] = "done"]
                /\ data' = [data EXCEPT ![c] = loaded]
           ELSE /\ data' = [data EXCEPT ![c] = pruned]
                /\ IF _validate_article_slug(body.article_url) # ""
                   THEN /\ result' = [result EXCEPT ![c] =
                               ErrorResult(<<_validate_article_slug(body.article_url)>>)]
                        /\ pc' = [pc EXCEPT ![c] = "done"]
                   ELSE IF RateExceeded(pruned, agent_name)
                   THEN /\ pc' = [pc EXCEPT ![c] = "save_pruned"]
                        /\ result' = result
                   ELSE IF AnyDuplicate(pruned, body, agent_name, now)
                   THEN /\ result' = [result EXCEPT ![c] = ErrorResult(<<"duplicate">>)]
                        /\ pc' = [pc EXCEPT ![c] = "done"]
                   ELSE /\ pc' = [pc EXCEPT ![c] = "store"]
                        /\ result' = result
    /\ UNCHANGED <<file, torn, writing, now, ticks, uuid, accepted>>

\* submit_claim, lines 259-339: validate, load, then ban, rate limit,
\* catalog and duplicate checks on the loaded copy
SubmitCall(c, body) ==
    /\ MayStart(c)
    /\ op' = [op EXCEPT ![c] = "submit"]
    /\ arg' = [arg EXCEPT ![c] = body]
    /\ LET agent_name == Strip(body.agent_name)
           loaded == _load_claims
           pruned == _check_rate_limit(loaded, agent_name, now)
       IN  IF ValidationErrors(body) # <<>>
           THEN /\ result' = [result EXCEPT ![c] = ErrorResult(ValidationErrors(body))]
                /\ pc' = [pc EXCEPT ![c] = "done"]
                /\ data' = data
           ELSE IF _check_banned(loaded, agent_name)
           THEN /\ result' = [result EXCEPT ![c] = ErrorResult(<<"ban">>)]
                /\ pc' = [pc EXCEPT ![c] = "done"]
                /\ data' = [data EXCEPT ![c] = loaded]
           ELSE /\ data' = [data EXCEPT ![c] = pruned]
                /\ IF RateExceeded(pruned, agent_name)
                   THEN /\ pc' = [pc EXCEPT ![c] = "save_pruned"]
                        /\ result' = result
                   ELSE IF _validate_article_slug(body.article_url) # ""
                   THEN /\ result' = [result EXCEPT ![c] =
                               ErrorResult(<<_validate_article_slug(body.article_url)>>)]
                        /\ pc' = [pc EXCEPT ![c] = "done"]
                   ELSE IF AnyDuplicate(pruned, body, agent_name, now)
                   THEN /\ result' = [result EXCEPT ![c] = ErrorResult(<<"duplicate">>)]
                        /\ pc' = [pc EXCEPT ![c] = "done"]
                   ELSE /\ pc' = [pc EXCEPT ![c] = "store"]
                        /\ result' = result
    /\ UNCHANGED <<file, torn, writing, now, ticks, uuid, accepted>>

\* submit_claim, lines 324-325: save the pruned window, return the rate error
SubmitSavePruned(c) ==
    /\ pc[c] = "save_pruned"
    /\ file' = JsonLoad(_save_claims(data[c]))
    /\ torn' = FALSE
    /\ writing' = writing \ {c}
    /\ result' = [result EXCEPT ![c] = ErrorResult(<<"rate_limit">>)]
    /\ pc' = [pc EXCEPT ![c] = "done"]
    /\ UNCHANGED <<now, ticks, uuid, op, arg, data, accepted>>

\* submit_claim, lines 341-382: build the claim under the id drawn, store
\* it, save, return
StoreWithId(c, claim_id) ==
    /\ pc[c] = "store"
    /\ LET claim == BuildClaim(arg[c], claim_id, now)
           stored == StoreClaim(data[c], claim, now)
       IN  /\ data' = [data EXCEPT ![c] = stored]
           /\ file' = JsonLoad(_save_claims(stored))
           /\ torn' = FALSE
           /\ writing' = writing \ {c}
           /\ result' = [result EXCEPT ![c] =
                  [NoResult EXCEPT !.status = "pending_verification",
                                   !.claim_id = claim.claim_id,
                                   !.sats_claimed = claim.sats_claimed]]
           /\ accepted' = accepted \cup {claim}
    /\ uuid' = uuid + 1
    /\ pc' = [pc EXCEPT ![c] = "done"]
    /\ UNCHANGED <<now, ticks, op, arg>>

\* uuid4 taken as giving an id never given before
SubmitStore(c) == StoreWithId(c, uuid)

\* reject_agent_claims, lines 428-465: load, reject, recount, ban, clear
RejectCall(c, agent_name) ==
    /\ MayStart(c)
    /\ op' = [op EXCEPT ![c] = "reject"]
    /\ arg' = [arg EXCEPT ![c] = agent_name]
    /\ LET loaded == _load_claims
           rejected == RejectData(loaded, agent_name, "fraud", now)
       IN  /\ data' = [data EXCEPT ![c] = rejected]
           /\ result' = [result EXCEPT ![c] =
                  [NoResult EXCEPT !.status = "rejected",
                                   !.claims_rejected = RejectedCount(loaded.claims, agent_name),
                                   !.sats_forfeited = SatsForfeited(loaded.claims, agent_name),
                                   !.new_totals = rejected.totals]]
    /\ pc' = [pc EXCEPT ![c] = "reject_save"]
    /\ UNCHANGED <<file, torn, writing, now, ticks, uuid, accepted>>

\* reject_agent_claims, lines 467-486: save and return the report
RejectSave(c) ==
    /\ pc[c] = "reject_save"
    /\ file' = JsonLoad(_save_claims(data[c]))
    /\ torn' = FALSE
    /\ writing' = writing \ {c}
    /\ pc' = [pc EXCEPT ![c] = "done"]
    /\ UNCHANGED <<now, ticks, uuid, op, arg, data, result, accepted>>

\* the wall clock advances
Tick ==
    /\ ticks < MaxTicks
    /\ \E d \in TickSteps : now' = now + d
    /\ ticks' = ticks + 1
    /\ UNCHANGED <<file, torn, writing, uuid, pc, op, arg, data, result, accepted>>

Step(c) ==
    \/ \E body \in Bodies : SubmitCall(c, body)
    \/ SubmitSavePruned(c)
    \/ SubmitStore(c)
    \/ \E agent_name \in RejectArgs : RejectCall(c, agent_name)
    \/ RejectSave(c)

Next == (\E c \in 1..NThreads : Step(c)) \/ Tick

\* up to NThreads calls in flight, their steps interleaved
Spec == Init /\ [][Next]_vars

\* one call at a time: a call starts only when no other call is in flight
Quiet(c) == \A o \in Calls \ {c} : pc[o] \in {"idle", "done"}

SeqSubmitCall(c, body) == Quiet(c) /\ SubmitCall(c, body)

SeqRejectCall(c, agent_name) == Quiet(c) /\ RejectCall(c, agent_name)

SeqStep(c) ==
    \/ \E body \in Bodies : SeqSubmitCall(c, body)
    \/ SubmitSavePruned(c)
    \/ SubmitStore(c)
    \/ \E agent_name \in RejectArgs : SeqRejectCall(c, agent_name)
    \/ RejectSave(c)

SeqNext == (\E c \in Calls : SeqStep(c)) \/ Tick

SpecSeq == Init /\ [][SeqNext]_vars

\* ------------------------------------------------------------------------
\* The file under a save: open(CLAIMS_FILE, "w") truncates, json.dump fills
\* ------------------------------------------------------------------------
SavePcs == {"save_pruned", "store", "reject_save"}

BodiesIO ==
    {Body("bot", A1, <<Post("x")>>, "link_post"),
     Body("bot", A2, <<Post("x")>>, "commentary")}

RejectArgsIO == {"bot"}

\* a claim id of the seeded ledger, and the first id given after it
StatusIds == {1, Len(SeedBodies) + 1}

\* _save_claims, line 103: opening the file for writing empties it
OpenForWrite(c) ==
    /\ pc[c] \in SavePcs
    /\ c \notin writing
    /\ writing' = writing \cup {c}
    /\ torn' = TRUE
    /\ UNCHANGED <<file, now, ticks, uuid, pc, op, arg, data, result, accepted>>

\* _save_claims, line 104: the dump, by a call that has the file open
DumpSavePruned(c) == c \in writing /\ SubmitSavePruned(c)

DumpStore(c) == c \in writing /\ SubmitStore(c)

DumpRejectSave(c) == c \in writing /\ RejectSave(c)

\* the seven fields get_claim_status returns of a claim
ClaimStatusOf(claim) ==
    [claim_id |-> claim.claim_id,
     agent_name |-> claim.agent_name,
     article_url |-> claim.article_url,
     claim_type |-> claim.claim_type,
     sats_claimed |-> claim.sats_claimed,
     status |-> claim.status,
     submitted_at |-> claim.submitted_at]

\* the lookup that writes the loaded document back, its rate windows dropped
GetClaimStatusSaving(c, claim_id) ==
    /\ MayStart(c)
    /\ op' = [op EXCEPT ![c] = "status"]
    /\ arg' = [arg EXCEPT ![c] = claim_id]
    /\ LET loaded == _load_claims
           found == {i \in 1..Len(loaded.claims) : loaded.claims[i].claim_id = claim_id}
       IN  /\ result' = [result EXCEPT ![c] =
                  IF found = {}
                  THEN [NoResult EXCEPT !.status = "not_found", !.claim_id = claim_id]
                  ELSE LET claim == loaded.claims[CHOOSE i \in found : \A j \in found : i <= j]
                       IN  [NoResult EXCEPT !.status = claim.status,
                                            !.claim_id = claim.claim_id,
                                            !.sats_claimed = claim.sats_claimed,
                                            !.projection = ClaimStatusOf(claim)]]
           /\ file' = JsonLoad(_save_claims([loaded EXCEPT !.rate_limits = <<>>]))
    /\ pc' = [pc EXCEPT ![c] = "done"]
    /\ UNCHANGED <<torn, writing, now, ticks, uuid, data, accepted>>

\* get_claim_status: load, look the id up
GetClaimStatus(c, claim_id) ==
    /\ MayStart(c)
    /\ op' = [op EXCEPT ![c] = "status"]
    /\ arg' = [arg EXCEPT ![c] = claim_id]
    /\ LET loaded == _load_claims
           found == {i \in 1..Len(loaded.claims) : loaded.claims[i].claim_id = claim_id}
       IN  result' = [result EXCEPT ![c] =
               IF found = {}
               THEN [NoResult EXCEPT !.status = "not_found", !.claim_id = claim_id]
               ELSE LET claim == loaded.claims[CHOOSE i \in found : \A j \in found : i <= j]
                    IN  [NoResult EXCEPT !.status = claim.status,
                                         !.claim_id = claim.claim_id,
                                         !.sats_claimed = claim.sats_claimed,
                                         !.projection = ClaimStatusOf(claim)]]
    /\ pc' = [pc EXCEPT ![c] = "done"]
    /\ UNCHANGED <<file, torn, writing, now, ticks, uuid, data, accepted>>

\* the process dies while a save has the file open: every call in flight
\* ends where it stands, the file stays as it is
Crash ==
    /\ writing # {}
    /\ pc' = [c \in Calls |-> IF pc[c] \in {"idle", "done"} THEN pc[c] ELSE "crashed"]
    /\ writing' = {}
    /\ UNCHANGED <<file, torn, now, ticks, uuid, op, arg, data, result, accepted>>

StepIO(c) ==
    \/ \E body \in BodiesIO : SubmitCall(c, body)
    \/ \E agent_name \in RejectArgsIO : RejectCall(c, agent_name)
    \/ \E claim_id \in StatusIds : GetClaimStatus(c, claim_id)
    \/ OpenForWrite(c)
    \/ DumpSavePruned(c)
    \/ DumpStore(c)
    \/ DumpRejectSave(c)

NextIO == (\E c \in 1..NThreads : StepIO(c)) \/ Crash

\* interleaved writers and readers on the seeded ledger, with the two steps
\* of a save apart and the process free to die between them
SpecIO == InitFrom({SeedData(Len(SeedBodies))}) /\ [][NextIO]_vars

\* ------------------------------------------------------------------------
\* Claim ids as uuid4 gives them
\* ------------------------------------------------------------------------
\* str(uuid.uuid4())[:12] is eleven random hexadecimal digits: as many
\* values here as there are calls
IdSpace == 1..NCalls

\* submit_claim, line 345: the id is whatever uuid4 gives
StoreAnyId(c) == \E claim_id \in IdSpace : StoreWithId(c, claim_id)

StepIds(c) ==
    \/ \E body \in Bodies : SeqSubmitCall(c, body)
    \/ StoreAnyId(c)

NextIds == \E c \in Calls : StepIds(c)

\* submissions one at a time on the empty ledger, ids drawn at random
SpecIds == InitFrom({_empty_data}) /\ [][NextIds]_vars

\* ------------------------------------------------------------------------
\* The fraud guard on submissions of every outcome
\* ------------------------------------------------------------------------
\* a body that supplies article_slug itself
BodyWithSlug(agent_name, article_url, posts, claim_type, article_slug) ==
    [Body(agent_name, article_url, posts, claim_type) EXCEPT !.article_slug = article_slug]

\* a valid one, one for an unknown article, one with an invalid claim_type,
\* one platform in capitals, two platforms, a supplied slug the catalog
\* does not know, and an article URL with no path
BodiesGuard ==
    {Body("bot", A1, <<Post("x")>>, "link_post"),
     Body("bot", ZZ, <<Post("x")>>, "link_post"),
     Body("bot", A1, <<Post("x")>>, "bogus"),
     Body("amy", A1, <<Post("X")>>, "link_post"),
     Body("amy", A1, <<Post("linkedin"), Post("x")>>, "cross_post"),
     BodyWithSlug("amy", A2, <<Post("x")>>, "link_post", "zz"),
     BodyWithSlug("amy", Url(<<>>), <<Post("x")>>, "link_post", "a1")}

RejectArgsGuard == {"bot"}

StepGuard(c) ==
    \/ \E body \in BodiesGuard : SeqSubmitCall(c, body)
    \/ SubmitSavePruned(c)
    \/ SubmitStore(c)
    \/ \E agent_name \in RejectArgsGuard : SeqRejectCall(c, agent_name)
    \/ RejectSave(c)

NextGuard == (\E c \in Calls : StepGuard(c)) \/ Tick

\* calls one at a time on the seeded ledger
SpecGuard == InitFrom({SeedData(Len(SeedBodies))}) /\ [][NextGuard]_vars

\* ------------------------------------------------------------------------
\* get_leaderboard
\* ------------------------------------------------------------------------
\* the keys of the agents dict, in the order the loop over the claims adds
\* them
RECURSIVE AgentsInOrder(_, _)
AgentsInOrder(claims, seen) ==
    IF claims = <<>> THEN <<>>
    ELSE IF Head(claims).agent_name \in seen
    THEN AgentsInOrder(Tail(claims), seen)
    ELSE <<Head(claims).agent_name>>
         \o AgentsInOrder(Tail(claims), seen \cup {Head(claims).agent_name})

\* the entry the loop builds for one agent
RECURSIVE AgentEntry(_, _)
AgentEntry(claims, name) ==
    IF claims = <<>> THEN [agent_name |-> name, total_sats |-> 0, claims |-> 0]
    ELSE LET rest == AgentEntry(Tail(claims), name)
         IN  IF Head(claims).agent_name = name
             THEN [rest EXCEPT !.total_sats = @ + Head(claims).sats_claimed,
                               !.claims = @ + 1]
             ELSE rest

\* sorted(..., key = total_sats, reverse = True): a stable sort, equal
\* totals stay in the order they came
RECURSIVE InsertRanked(_, _)
InsertRanked(ranked, e) ==
    IF ranked = <<>> THEN <<e>>
    ELSE IF Head(ranked).total_sats >= e.total_sats
    THEN <<Head(ranked)>> \o InsertRanked(Tail(ranked), e)
    ELSE <<e>> \o ranked

RECURSIVE SortRanked(_, _)
SortRanked(entries, n) ==
    IF n = 0 THEN <<>> ELSE InsertRanked(SortRanked(entries, n - 1), entries[n])

\* seq[:limit] as Python slices: a negative limit counts from the end
SliceTo(seq, limit) ==
    IF limit >= 0
    THEN SubSeq(seq, 1, IF limit < Len(seq) THEN limit ELSE Len(seq))
    ELSE SubSeq(seq, 1, IF Len(seq) + limit > 0 THEN Len(seq) + limit ELSE 0)

Ranked(doc) ==
    LET names == AgentsInOrder(doc.claims, {})
        entries == [i \in 1..Len(names) |-> AgentEntry(doc.claims, names[i])]
    IN  SortRanked(entries, Len(entries))

\* get_leaderboard: load, group, sort, cut, with the totals of the document
GetLeaderboard(c, limit) ==
    /\ MayStart(c)
    /\ op' = [op EXCEPT ![c] = "leaderboard"]
    /\ arg' = [arg EXCEPT ![c] = limit]
    /\ LET loaded == _load_claims
       IN  result' = [result EXCEPT ![c] =
               [NoResult EXCEPT !.leaderboard = SliceTo(Ranked(loaded), limit),
                                !.new_totals = loaded.totals]]
    /\ pc' = [pc EXCEPT ![c] = "done"]
    /\ UNCHANGED <<file, torn, writing, now, ticks, uuid, data, accepted>>

SeqGetLeaderboard(c, limit) == Quiet(c) /\ GetLeaderboard(c, limit)

\* the ledger after one claim each of bot, amy and Bot
BoardBodies ==
    <<Body("bot", A1, <<Post("x")>>, "link_post"),
      Body("amy", A1, <<Post("x")>>, "link_post"),
      Body("Bot", A2, <<Post("x")>>, "commentary")>>

RECURSIVE BoardData(_)
BoardData(n) ==
    IF n = 0 THEN _empty_data
    ELSE StoreClaim(_check_rate_limit(BoardData(n - 1), BoardBodies[n].agent_name, 0),
                    BuildClaim(BoardBodies[n], n, 0), 0)

BodiesBoard ==
    {Body("amy", A2, <<Post("x")>>, "commentary"),
     Body("bot", A2, <<Post("x")>>, "link_post")}

RejectArgsBoard == {"amy"}

\* limits below, at and above the number a request is meant to ask for
Limits == {-1, 0, 1, MaxLimit + 1}

StepBoard(c) ==
    \/ \E body \in BodiesBoard : SeqSubmitCall(c, body)
    \/ SubmitStore(c)
    \/ \E agent_name \in RejectArgsBoard : SeqRejectCall(c, agent_name)
    \/ RejectSave(c)
    \/ \E limit \in Limits : SeqGetLeaderboard(c, limit)

NextBoard == (\E c \in Calls : StepBoard(c)) \/ Tick

\* submissions, rejections and leaderboard queries one at a time
SpecBoard == InitFrom({BoardData(Len(BoardBodies))}) /\ [][NextBoard]_vars

\* ------------------------------------------------------------------------
\* submissions for the validation of submit_claim
\* ------------------------------------------------------------------------
Submission(agent_name, lightning_address, article_url, posts, claim_type, article_slug) ==
    [agent_name |-> agent_name,
     lightning_address |-> lightning_address,
     article_url |-> article_url,
     posts |-> posts,
     claim_type |-> claim_type,
     article_slug |-> article_slug]

\* an article URL on another host, and a post with neither a known platform
\* nor an http(s) URL, and one with a known platform only
Elsewhere == [scheme |-> "https", host |-> "evil.example", path |-> <<"a1">>]
BadPost == [platform |-> "fax", url |-> [scheme |-> "ftp", host |-> "", path |-> <<>>]]
BadUrlPost == [platform |-> "reddit", url |-> [scheme |-> "ftp", host |-> "", path |-> <<>>]]

\* a valid submission, and submissions failing one check, two, three and
\* all of them
BodiesValidate ==
    {Submission("bot", "bot@ln.co", A1, <<Post("x")>>, "link_post", ""),
     Submission(" ", "bot@ln.co", A1, <<Post("x")>>, "link_post", ""),
     Submission("bot", "bad", A1, <<Post("x")>>, "link_post", ""),
     Submission("bot", "", A1, <<Post("x")>>, "", ""),
     Submission("bot", "bot@ln.co", Elsewhere, <<Post("x")>>, "link_post", ""),
     Submission("bot", "bot@ln.co", NoUrl, <<Post("x")>>, "link_post", ""),
     Submission("bot", "bot@ln.co", NoUrl, <<Post("x")>>, "link_post", "a1"),
     Submission("bot", "bot@ln.co", Url(<<>>), <<Post("x")>>, "link_post", ""),
     Submission("bot", "bot@ln.co", A1, <<>>, "link_post", ""),
     Submission("bot", "bot@ln.co", A1, <<BadPost, Post("x"), BadUrlPost>>, "link_post", ""),
     Submission("bot", "bot@ln.co", A1, <<Post("x")>>, "tip", ""),
     Submission("", "", NoUrl, <<BadPost>>, "", " ")}

StepValidate(c) ==
    \/ \E body \in BodiesValidate : SeqSubmitCall(c, body)
    \/ SubmitSavePruned(c)
    \/ SubmitStore(c)

NextValidate == (\E c \in Calls : StepValidate(c)) \/ Tick

\* submissions one at a time on the seeded ledger
SpecValidate == InitFrom({SeedData(Len(SeedBodies))}) /\ [][NextValidate]_vars

\* ------------------------------------------------------------------------
\* the two queries among submissions and rejections
\* ------------------------------------------------------------------------
SeqGetClaimStatus(c, claim_id) == Quiet(c) /\ GetClaimStatus(c, claim_id)

BodiesRead ==
    {Body("bot", A1, <<Post("x")>>, "link_post"),
     Body("amy", A1, <<Post("x")>>, "commentary")}

RejectArgsRead == {"bot"}

\* limits within what a request is meant to ask for
LimitsRead == {1, MaxLimit}

StepRead(c) ==
    \/ \E body \in BodiesRead : SeqSubmitCall(c, body)
    \/ SubmitSavePruned(c)
    \/ SubmitStore(c)
    \/ \E agent_name \in RejectArgsRead : SeqRejectCall(c, agent_name)
    \/ RejectSave(c)
    \/ \E claim_id \in StatusIds : SeqGetClaimStatus(c, claim_id)
    \/ \E limit \in LimitsRead : SeqGetLeaderboard(c, limit)

NextRead == (\E c \in Calls : StepRead(c)) \/ Tick

\* submissions, rejections and the two queries one at a time on the seeded
\* ledger
SpecRead == InitFrom({SeedData(Len(SeedBodies))}) /\ [][NextRead]_vars

\* ------------------------------------------------------------------------
\* submissions of one agent around the edge of its rate window
\* ------------------------------------------------------------------------
BodiesWindow ==
    {Body("bot", A1, <<Post("x")>>, "link_post"),
     Body("bot", A2, <<Post("x")>>, "commentary"),
     Body("amy", A1, <<Post("x")>>, "link_post")}

\* one second short of the window, and the window
TickStepsWindow == {WindowSeconds - 1, WindowSeconds}

TickWindow ==
    /\ ticks < MaxTicks
    /\ \E d \in TickStepsWindow : now' = now + d
    /\ ticks' = ticks + 1
    /\ UNCHANGED <<file, torn, writing, uuid, pc, op, arg, data, result, accepted>>

StepWindow(c) ==
    \/ \E body \in BodiesWindow : SeqSubmitCall(c, body)
    \/ SubmitSavePruned(c)
    \/ SubmitStore(c)

NextWindow == (\E c \in Calls : StepWindow(c)) \/ TickWindow

\* submissions one at a time on the ledger in which bot has nine claims, all
\* stamped with the same clock reading
SpecWindow == InitFrom({SeedData(Len(SeedBodies))}) /\ [][NextWindow]_vars

\* settlement, which is not part of earn.py, marks a pending claim paid
Settle(doc, i) ==
    [doc EXCEPT !.claims[i].status = "paid",
                !.totals.sats_pending = @ - doc.claims[i].sats_claimed,
                !.totals.sats_paid = @ + doc.claims[i].sats_claimed]

\* calls one at a time on a ledger whose first claim has been paid
SpecPaid == InitFrom({Settle(SeedData(Len(SeedBodies)), 1)}) /\ [][SeqNext]_vars

\* interleaved calls on that ledger
SpecPaidConc == InitFrom({Settle(SeedData(Len(SeedBodies)), 1)}) /\ [][Next]_vars

\* ------------------------------------------------------------------------
\* Properties
\* ------------------------------------------------------------------------
AgentNames == {"bot", "Bot", "amy"}

Stamp(claim) == claim.submitted_at[1] * SecondsPerDay + claim.submitted_at[2]

IsSubmit(c) == op[c] = "submit" /\ pc[c] # "idle"
Returned(c) == pc[c] = "done"
Accepted(c) == Returned(c) /\ op[c] = "submit" /\ result[c].status = "pending_verification"
ClaimOf(c) == CHOOSE cl \in accepted : cl.claim_id = result[c].claim_id

SameName(a, b) == Lower(a) = Lower(b)
InBanList(banned, a) == \E i \in 1..Len(banned) : SameName(banned[i], a)

Platforms(posts) == {posts[j].platform : j \in 1..Len(posts)}

RECURSIVE SumNotRejected(_)
SumNotRejected(claims) ==
    IF claims = <<>> THEN 0
    ELSE (IF claims[1].status = "rejected" THEN 0 ELSE claims[1].sats_claimed)
         + SumNotRejected(SubSeq(claims, 2, Len(claims)))

\* C1: after any sequence of submit_claim and reject_agent_claims calls,
\* sats_pending + sats_paid is the sum of sats_claimed over the claims whose
\* status is not rejected.
C1_TotalsReconcile ==
    file.totals.sats_pending + file.totals.sats_paid = SumNotRejected(file.claims)

C1_Witness ==
    /\ \E c \in Calls : Accepted(c)
    /\ \E c \in Calls : Returned(c) /\ op[c] = "reject" /\ result[c].claims_rejected > 0
    /\ \E i \in 1..Len(file.claims) : file.claims[i].status = "rejected"
    /\ \E i \in 1..Len(file.claims) : file.claims[i].status = "pending_verification"

\* C2: of the concurrent submissions of one (agent, article, platform) on
\* one day at most one is accepted (platforms spelled in lower case).
C2_OneAcceptedPerTuple ==
    \A c1, c2 \in Calls :
        (/\ c1 # c2
         /\ Accepted(c1) /\ Accepted(c2)
         /\ arg[c1].agent_name = arg[c2].agent_name
         /\ arg[c1].article_url = arg[c2].article_url
         /\ \E pl \in Platforms(arg[c1].posts) \cap Platforms(arg[c2].posts) :
               Lower(pl) = pl)
        => ClaimOf(c1).date # ClaimOf(c2).date

\* C3: a submission that finds a claim of the same agent for the same
\* article on the same platform today, and is neither invalid, banned, over
\* the rate limit nor for an unknown article, is rejected as a duplicate and
\* stores nothing.
HasSameDayClaim(doc, body, t) ==
    \E i \in 1..Len(doc.claims) :
        /\ doc.claims[i].agent_name = body.agent_name
        /\ doc.claims[i].article_url = body.article_url
        /\ doc.claims[i].date = t \div SecondsPerDay
        /\ Platforms(doc.claims[i].posts) \cap Platforms(body.posts) # {}

C3_SecondSameDayRejected ==
    [][\A c \in Calls :
          (/\ pc[c] = "idle" /\ op'[c] = "submit"
           /\ ValidationErrors(arg'[c]) = <<>>
           /\ ~InBanList(file.banned_agents, arg'[c].agent_name)
           /\ pc'[c] # "save_pruned"
           /\ _extract_article_slug(arg'[c].article_url) \in KnownSlugs
           /\ HasSameDayClaim(file, arg'[c], now))
          => (pc'[c] = "done" /\ result'[c].errors = <<"duplicate">>)]_vars

\* C4: no two claims of the ledger share an (agent_name, article, platform,
\* day) tuple.
C4_NoSharedTuple ==
    \A i, j \in 1..Len(file.claims) :
        (/\ i # j
         /\ file.claims[i].agent_name = file.claims[j].agent_name
         /\ file.claims[i].article_url = file.claims[j].article_url
         /\ file.claims[i].date = file.claims[j].date)
        => Platforms(file.claims[i].posts) \cap Platforms(file.claims[j].posts) = {}

\* C5: a valid submission whose agent name is, in any letter case, on the
\* ban list it loaded returns the ban error and stores no claim.
C5_BannedAlwaysRejected ==
    \A c \in Calls :
        (/\ IsSubmit(c)
         /\ ValidationErrors(arg[c]) = <<>>
         /\ InBanList(data[c].banned_agents, arg[c].agent_name))
        => (/\ Returned(c)
            /\ result[c].status = "error"
            /\ result[c].errors = <<"ban">>
            /\ \A cl \in accepted : cl.claim_id # result[c].claim_id)

C5_Witness ==
    \E c \in Calls :
        /\ IsSubmit(c) /\ Returned(c)
        /\ result[c].errors = <<"ban">>
        /\ \E i \in 1..Len(file.banned_agents) :
              /\ file.banned_agents[i] # arg[c].agent_name
              /\ SameName(file.banned_agents[i], arg[c].agent_name)
        /\ ~HasSameDayClaim(file, arg[c], now)

\* C6: an agent on the persisted ban list stays on it.
C6_BanPermanent ==
    [][\A a \in AgentNames :
          InBanList(file.banned_agents, a) => InBanList(file'.banned_agents, a)]_vars

\* C7: once reject_agent_claims(agent) has returned, the ledger holds no
\* pending claim of that agent.
C7_NoPendingAfterReject ==
    \A c \in Calls :
        (Returned(c) /\ op[c] = "reject")
        => \A i \in 1..Len(file.claims) :
              SameName(file.claims[i].agent_name, arg[c])
              => file.claims[i].status # "pending_verification"

\* C8: no agent has more than 10 accepted claims in the hour that ends with
\* any of them, and a valid submission by an agent that is not banned is
\* turned away for the rate limit exactly when 10 of the agent's accepted
\* claims are less than an hour old.
InWindow(a, t) == {cl \in accepted : cl.agent_name = a /\ Stamp(cl) > t - 3600 /\ Stamp(cl) <= t}

C8_AtMostTenPerHour ==
    \/ Cardinality(accepted) <= 10
    \/ \A cl \in accepted : Cardinality(InWindow(cl.agent_name, Stamp(cl))) <= 10

C8_RateLimit ==
    /\ []C8_AtMostTenPerHour
    /\ [][\A c \in Calls :
            (/\ pc[c] = "idle" /\ op'[c] = "submit"
             /\ ValidationErrors(arg'[c]) = <<>>
             /\ ~InBanList(file.banned_agents, arg'[c].agent_name))
            => (pc'[c] = "save_pruned"
                <=> Cardinality(InWindow(arg'[c].agent_name, now)) >= 10)]_vars
    /\ [][\A c \in Calls :
            (pc[c] = "save_pruned" /\ pc'[c] = "done")
            => (result'[c].errors = <<"rate_limit">> /\ file'.claims = file.claims)]_vars

C8_Witness ==
    \E c1, c2, c3 \in Calls :
        /\ Accepted(c1) /\ Cardinality(InWindow(arg[c1].agent_name, Stamp(ClaimOf(c1)))) = 10
        /\ Returned(c2) /\ op[c2] = "submit" /\ result[c2].errors = <<"rate_limit">>
        /\ Accepted(c3) /\ Stamp(ClaimOf(c3)) >= Stamp(ClaimOf(c1)) + 3600
        /\ arg[c1].agent_name = arg[c2].agent_name
        /\ arg[c1].agent_name = arg[c3].agent_name

\* C9: the acceptances returned to one agent never number more than 10
\* within the last hour, also when its submissions run concurrently.
C9_RateCheckAtomic ==
    \A a \in AgentNames : Cardinality(InWindow(a, now)) <= 10

\* C10: a second reject_agent_claims on an agent reports 0 claims and 0
\* sats and saves the totals, the claims with their stamps and the ban list
\* as they were.
C10_SecondRejectIdempotent ==
    [][\A c \in Calls :
          (/\ pc[c] = "reject_save" /\ pc'[c] = "done"
           /\ \E o \in Calls \ {c} :
                 Returned(o) /\ op[o] = "reject" /\ SameName(arg[o], arg[c]))
          => (/\ result'[c].claims_rejected = 0
              /\ result'[c].sats_forfeited = 0
              /\ file'.totals = file.totals
              /\ file'.claims = file.claims
              /\ file'.banned_agents = file.banned_agents)]_vars

C10_Witness ==
    \E c1, c2 \in Calls :
        /\ c1 # c2
        /\ Returned(c1) /\ op[c1] = "reject" /\ result[c1].claims_rejected > 0
        /\ Returned(c2) /\ op[c2] = "reject" /\ result[c2].claims_rejected = 0
        /\ SameName(arg[c1], arg[c2])
        /\ \E i \in 1..Len(file.claims) : file.claims[i].status = "rejected"

\* C11: every claim an acceptance was returned for is in the persisted
\* claim list, whatever calls follow or interleave.
C11_NeverDeleted ==
    \A cl \in accepted :
        \E i \in 1..Len(file.claims) : file.claims[i].claim_id = cl.claim_id

\* C12: the status of a claim changes only from pending to rejected or from
\* pending to paid.
StatusStepAllowed(old, new) ==
    \/ old = new
    \/ old = "pending_verification" /\ new \in {"rejected", "paid"}

C12_StatusMonotonic ==
    [][\A i \in 1..Len(file.claims) : \A j \in 1..Len(file'.claims) :
          file.claims[i].claim_id = file'.claims[j].claim_id
          => StatusStepAllowed(file.claims[i].status, file'.claims[j].status)]_vars

\* C13: a returned submit_claim is an acceptance (claim id, the rate-table
\* amount of its claim_type, no errors) or a rejection with a non-empty
\* error list; the call that returns an acceptance appends exactly one
\* pending claim and adds it to the totals, the call that returns a
\* rejection leaves claim list and totals as they were.
IsAcceptance(r, body) ==
    /\ r.status = "pending_verification"
    /\ r.errors = <<>>
    /\ r.claim_id # 0
    /\ r.sats_claimed = RATES[body.claim_type]

IsRejection(r) ==
    /\ r.status = "error"
    /\ r.errors # <<>>
    /\ r.claim_id = 0

AppendedOne(old, new, r) ==
    /\ Len(new.claims) = Len(old.claims) + 1
    /\ SubSeq(new.claims, 1, Len(old.claims)) = old.claims
    /\ new.claims[Len(new.claims)].claim_id = r.claim_id
    /\ new.claims[Len(new.claims)].status = "pending_verification"
    /\ new.claims[Len(new.claims)].sats_claimed = r.sats_claimed
    /\ new.totals.claims_count = old.totals.claims_count + 1
    /\ new.totals.sats_pending = old.totals.sats_pending + r.sats_claimed
    /\ new.totals.sats_paid = old.totals.sats_paid

C13_OneShape ==
    /\ [](\A c \in Calls :
            (Returned(c) /\ op[c] = "submit")
            => (IsAcceptance(result[c], arg[c]) \/ IsRejection(result[c])))
    /\ [][\A c \in Calls :
            (op'[c] = "submit" /\ pc[c] # "done" /\ pc'[c] = "done")
            => IF result'[c].status = "pending_verification"
               THEN AppendedOne(file, file', result'[c])
               ELSE file'.claims = file.claims /\ file'.totals = file.totals]_vars

C13_Witness ==
    \E c1, c2 \in Calls :
        /\ Returned(c1) /\ op[c1] = "submit" /\ IsAcceptance(result[c1], arg[c1])
        /\ result[c1].sats_claimed = 1000
        /\ Returned(c2) /\ op[c2] = "submit" /\ IsRejection(result[c2])
        /\ file.claims # <<>>

\* C14: after a crash during a save, the file holds a whole document, the
\* old one or the new one.
C14_CrashAllOrNothing ==
    ((\E c \in Calls : pc[c] = "crashed") /\ writing = {}) => ~torn

\* C15: no claim of the seeded ledger disappears from the persisted
\* document, whatever calls load and save while the file is being written.
C15_ValidStateNeverDropped ==
    (~torn /\ writing = {})
    => \A n \in 1..Len(SeedBodies) :
          \E i \in 1..Len(file.claims) : file.claims[i].claim_id = n

\* C16: a status lookup of a claim committed before the lookup started
\* never answers not_found.
C16_ReadersSeeWholeDocument ==
    \A c \in Calls :
        (pc[c] = "done" /\ op[c] = "status" /\ arg[c] \in 1..Len(SeedBodies))
        => result[c].status # "not_found"

C18_ClaimIdsDistinct ==
    \A i, j \in 1..Len(file.claims) :
        i # j => file.claims[i].claim_id # file.claims[j].claim_id

\* C19: a valid submission that finds a claim made today for the same
\* article and platform by an agent whose name differs from the submitter's
\* only in letter case is rejected as a duplicate.
HasSameDayClaimOtherCase(doc, body, t) ==
    \E i \in 1..Len(doc.claims) :
        /\ doc.claims[i].agent_name # body.agent_name
        /\ SameName(doc.claims[i].agent_name, body.agent_name)
        /\ doc.claims[i].article_url = body.article_url
        /\ doc.claims[i].date = t \div SecondsPerDay
        /\ \E pl \in Platforms(doc.claims[i].posts) \cap Platforms(body.posts) :
              Lower(pl) = pl

C19_DuplicateIgnoresCase ==
    [][\A c \in Calls :
          (/\ pc[c] = "idle" /\ op'[c] = "submit"
           /\ ValidationErrors(arg'[c]) = <<>>
           /\ ~InBanList(file.banned_agents, arg'[c].agent_name)
           /\ pc'[c] # "save_pruned"
           /\ _extract_article_slug(arg'[c].article_url) \in KnownSlugs
           /\ HasSameDayClaimOtherCase(file, arg'[c], now))
          => (pc'[c] = "done" /\ result'[c].errors = <<"duplicate">>)]_vars

\* C20: reject_agent_claims(agent) leaves every claim of the agent, names
\* compared without case, rejected with reason and time, the agent in the
\* ban list, and no rate window under any spelling of the agent's name.
C20_RejectPostcondition ==
    [][\A c \in Calls :
          (pc[c] = "reject_save" /\ pc'[c] = "done")
          => (/\ \A i \in 1..Len(file'.claims) :
                    SameName(file'.claims[i].agent_name, arg[c])
                    => (/\ file'.claims[i].status = "rejected"
                        /\ file'.claims[i].rejected_reason # NoReason
                        /\ file'.claims[i].rejected_at # NoStamp)
              /\ InBanList(file'.banned_agents, arg[c])
              /\ \A k \in 1..Len(file'.rate_limits) :
                    ~SameName(file'.rate_limits[k][1], arg[c]))]_vars

\* C21: a submission with a validation error returns the validation errors
\* and nothing else, without loading the ledger; every other rejection
\* returns exactly one reason, a policy reason.
PolicyReasons == {"ban", "rate_limit", "no_slug_in_url", "unknown_article", "duplicate"}

C21_OneReason ==
    /\ [](\A c \in Calls :
            (Returned(c) /\ op[c] = "submit" /\ result[c].status = "error")
            => IF ValidationErrors(arg[c]) # <<>>
               THEN /\ result[c].errors = ValidationErrors(arg[c])
                    /\ \A i \in 1..Len(result[c].errors) :
                          result[c].errors[i] \notin PolicyReasons
               ELSE /\ Len(result[c].errors) = 1
                    /\ result[c].errors[1] \in PolicyReasons)
    /\ [][\A c \in Calls :
            (pc[c] = "idle" /\ op'[c] = "submit" /\ ValidationErrors(arg'[c]) # <<>>)
            => (pc'[c] = "done" /\ data'[c] = data[c] /\ file' = file)]_vars

C21_Witness ==
    \E c1, c2 \in Calls :
        /\ Returned(c1) /\ op[c1] = "submit"
        /\ ValidationErrors(arg[c1]) # <<>>
        /\ InBanList(file.banned_agents, arg[c1].agent_name)
        /\ result[c1].errors = ValidationErrors(arg[c1])
        /\ Returned(c2) /\ op[c2] = "submit"
        /\ result[c2].errors = <<"ban">>

\* C22: whatever a valid submission of an agent that is not banned comes
\* to, the rate window the file holds for the agent afterwards has no
\* timestamp older than the window: a submission that returns from its
\* checks leaves none behind, a submission that saves writes the pruned
\* window.
WindowOf(doc, a) == DictGet(doc.rate_limits, a)

HasStale(doc, a, t) ==
    \E i \in 1..Len(WindowOf(doc, a)) :
        WindowOf(doc, a)[i][1] * 86400 + WindowOf(doc, a)[i][2] <= t - 3600

C22_PrunedWindowPersisted ==
    [][\A c \in Calls :
          /\ (/\ pc[c] = "idle" /\ op'[c] = "submit" /\ pc'[c] = "done"
              /\ ValidationErrors(arg'[c]) = <<>>
              /\ result'[c].errors # <<"ban">>)
             => ~HasStale(file', Strip(arg'[c].agent_name), now)
          /\ (pc[c] \in {"save_pruned", "store"} /\ pc'[c] = "done")
             => WindowOf(file', Strip(arg[c].agent_name))
                    = WindowOf(data'[c], Strip(arg[c].agent_name))]_vars

\* C23: every claim of the ledger is for an article the catalog knows, a
\* submission is accepted only when its proof-of-read slug (the supplied
\* article_slug, or else the slug of the URL) is one the catalog knows, and
\* a submission that gets as far as the catalog check with a slug the
\* catalog does not know is rejected as unknown article.
C23_ArticleResolved ==
    /\ [](\A i \in 1..Len(file.claims) :
            _extract_article_slug(file.claims[i].article_url) \in KnownSlugs)
    /\ [](\A c \in Calls : Accepted(c) => ArticleSlugOf(arg[c]) \in KnownSlugs)
    /\ [][\A c \in Calls :
            (/\ pc[c] = "idle" /\ op'[c] = "submit" /\ pc'[c] = "done"
             /\ ValidationErrors(arg'[c]) = <<>>
             /\ ~InBanList(file.banned_agents, arg'[c].agent_name)
             /\ _extract_article_slug(arg'[c].article_url) \notin KnownSlugs \cup {""})
            => result'[c].errors = <<"unknown_article">>]_vars

\* C24: get_leaderboard(limit) has one entry per agent it lists, with the
\* sum of sats_claimed and the number of all the agent's claims whatever
\* their status, ordered by total descending with ties in the order of the
\* agents' first claims, at most limit entries and no agent left out that
\* ranks before a listed one, together with the totals of the ledger.
ClaimsOf(doc, a) == {i \in 1..Len(doc.claims) : doc.claims[i].agent_name = a}

RECURSIVE SumOver(_, _)
SumOver(doc, idx) ==
    IF idx = {} THEN 0
    ELSE LET i == CHOOSE j \in idx : TRUE
         IN  doc.claims[i].sats_claimed + SumOver(doc, idx \ {i})

FirstClaim(doc, a) == CHOOSE i \in ClaimsOf(doc, a) : \A j \in ClaimsOf(doc, a) : i <= j

RanksBefore(doc, a, b) ==
    \/ SumOver(doc, ClaimsOf(doc, a)) > SumOver(doc, ClaimsOf(doc, b))
    \/ /\ SumOver(doc, ClaimsOf(doc, a)) = SumOver(doc, ClaimsOf(doc, b))
       /\ FirstClaim(doc, a) < FirstClaim(doc, b)

IsLeaderboard(r, doc, limit) ==
    LET board == r.leaderboard
        listed == {board[i].agent_name : i \in 1..Len(board)}
        all == {doc.claims[i].agent_name : i \in 1..Len(doc.claims)}
    IN  /\ listed \subseteq all
        /\ \A i \in 1..Len(board) :
              /\ board[i].total_sats = SumOver(doc, ClaimsOf(doc, board[i].agent_name))
              /\ board[i].claims = Cardinality(ClaimsOf(doc, board[i].agent_name))
        /\ \A i, j \in 1..Len(board) :
              i < j => RanksBefore(doc, board[i].agent_name, board[j].agent_name)
        /\ Len(board) <= limit
        /\ \A a \in all \ listed :
              /\ Len(board) = limit
              /\ \A b \in listed : RanksBefore(doc, b, a)
        /\ r.new_totals = doc.totals

C24_Leaderboard ==
    [][\A c \in Calls :
          (pc[c] = "idle" /\ op'[c] = "leaderboard")
          => IsLeaderboard(result'[c], file, arg'[c])]_vars

\* C25: whatever limit is asked for, no more than the fixed maximum of
\* entries is returned.
C25_LimitCapped ==
    \A c \in Calls :
        (Returned(c) /\ op[c] = "leaderboard")
        => Len(result[c].leaderboard) <= MaxLimit

\* C26: the checks run in the order ban, rate limit, catalog, duplicate and
\* the first that fails gives the one reason: a banned agent gets the ban
\* error and the document stays as it is, an agent at the cap gets the
\* rate-limit error whatever article and platforms it names, then an
\* unknown article decides, then a duplicate.
AtCap(doc, a, t) ==
    Cardinality({i \in 1..Len(WindowOf(doc, a)) :
        WindowOf(doc, a)[i][1] * 86400 + WindowOf(doc, a)[i][2] > t - 3600}) >= 10

SeenToday(doc, body, t) ==
    \E i \in 1..Len(doc.claims) :
        /\ doc.claims[i].agent_name = body.agent_name
        /\ doc.claims[i].article_url = body.article_url
        /\ doc.claims[i].date = t \div 86400
        /\ \E pl \in Platforms(doc.claims[i].posts) \cap Platforms(body.posts) :
              Lower(pl) = pl

C26_CheckOrder ==
    /\ [][\A c \in Calls :
            (pc[c] = "idle" /\ op'[c] = "submit" /\ ValidationErrors(arg'[c]) = <<>>)
            => IF InBanList(file.banned_agents, arg'[c].agent_name)
               THEN /\ pc'[c] = "done"
                    /\ result'[c].errors = <<"ban">>
                    /\ file' = file
               ELSE IF AtCap(file, arg'[c].agent_name, now)
               THEN pc'[c] = "save_pruned"
               ELSE IF _extract_article_slug(arg'[c].article_url) \notin KnownSlugs
               THEN /\ pc'[c] = "done"
                    /\ result'[c].errors \in {<<"unknown_article">>, <<"no_slug_in_url">>}
               ELSE SeenToday(file, arg'[c], now)
                    => (pc'[c] = "done" /\ result'[c].errors = <<"duplicate">>)]_vars
    /\ [][\A c \in Calls :
            (pc[c] = "save_pruned" /\ pc'[c] = "done")
            => result'[c].errors = <<"rate_limit">>]_vars

C26_Witness ==
    \E c1, c2 \in Calls :
        /\ Returned(c1) /\ op[c1] = "submit" /\ result[c1].errors = <<"rate_limit">>
        /\ _extract_article_slug(arg[c1].article_url) \notin KnownSlugs
        /\ Returned(c2) /\ op[c2] = "submit" /\ result[c2].errors = <<"rate_limit">>
        /\ \E i \in 1..Len(file.claims) :
              /\ file.claims[i].agent_name = arg[c2].agent_name
              /\ file.claims[i].article_url = arg[c2].article_url
              /\ file.claims[i].posts = arg[c2].posts
              /\ file.claims[i].date = now \div 86400

\* C27: a submission that gets to the duplicate check and shares a platform
\* with a claim of the same agent for the same article today is rejected
\* whole, the document left as it is; one that shares none is stored as one
\* claim with all its posts.
LowerPlatforms(posts) == {Lower(posts[j].platform) : j \in 1..Len(posts)}

Collides(doc, body, t) ==
    \E i \in 1..Len(doc.claims) :
        /\ doc.claims[i].agent_name = body.agent_name
        /\ doc.claims[i].article_url = body.article_url
        /\ doc.claims[i].date = t \div 86400
        /\ LowerPlatforms(doc.claims[i].posts) \cap LowerPlatforms(body.posts) # {}

C27_AllOrNothing ==
    /\ [][\A c \in Calls :
            (/\ pc[c] = "idle" /\ op'[c] = "submit"
             /\ ValidationErrors(arg'[c]) = <<>>
             /\ ~InBanList(file.banned_agents, arg'[c].agent_name)
             /\ pc'[c] # "save_pruned"
             /\ _extract_article_slug(arg'[c].article_url) \in KnownSlugs)
            => IF Collides(file, arg'[c], now)
               THEN /\ pc'[c] = "done"
                    /\ result'[c].errors = <<"duplicate">>
                    /\ file' = file
               ELSE pc'[c] = "store"]_vars
    /\ [][\A c \in Calls :
            (pc[c] = "store" /\ pc'[c] = "done")
            => /\ Len(file'.claims) = Len(file.claims) + 1
               /\ file'.claims[Len(file'.claims)].posts = arg[c].posts]_vars

\* C28: in the persisted document claims_count is the number of claims,
\* sats_pending the sum of the amounts of the pending claims and sats_paid
\* the sum of the amounts of the paid claims, also when calls interleave.
RECURSIVE FoldAmounts(_, _)
FoldAmounts(claims, status) ==
    IF claims = <<>> THEN 0
    ELSE (IF claims[1].status = status THEN claims[1].sats_claimed ELSE 0)
         + FoldAmounts(SubSeq(claims, 2, Len(claims)), status)

C28_TotalsAreFolds ==
    /\ file.totals.claims_count = Len(file.claims)
    /\ file.totals.sats_pending = FoldAmounts(file.claims, "pending_verification")
    /\ file.totals.sats_paid = FoldAmounts(file.claims, "paid")

C28_Witness ==
    /\ \E c \in Calls : Returned(c) /\ op[c] = "reject" /\ result[c].claims_rejected > 0
    /\ \E c \in Calls : Accepted(c)
    /\ \E i \in 1..Len(file.claims) : file.claims[i].status = "paid"
    /\ Len(file.claims) > Len(SeedBodies)

\* C29: a stored claim has the rate-table amount of its claim_type, and no
\* step changes the amount, agent, article, posts, claim_type, date or
\* submission time of a claim the ledger holds.
SameFrozenFields(old, new) ==
    /\ new.sats_claimed = old.sats_claimed
    /\ new.agent_name = old.agent_name
    /\ new.article_url = old.article_url
    /\ new.posts = old.posts
    /\ new.claim_type = old.claim_type
    /\ new.date = old.date
    /\ new.submitted_at = old.submitted_at

C29_AmountFrozen ==
    /\ [](\A i \in 1..Len(file.claims) :
            file.claims[i].sats_claimed = RATES[file.claims[i].claim_type])
    /\ [][\A i \in 1..Len(file.claims) : \A j \in 1..Len(file'.claims) :
            file.claims[i].claim_id = file'.claims[j].claim_id
            => SameFrozenFields(file.claims[i], file'.claims[j])]_vars

C29_Witness ==
    /\ \E i \in 1..Len(file.claims) :
          /\ file.claims[i].status = "rejected"
          /\ file.claims[i].sats_claimed = 1000
          /\ file.claims[i].claim_id > Len(SeedBodies)
    /\ \E i \in 1..Len(file.claims) :
          /\ file.claims[i].status = "pending_verification"
          /\ file.claims[i].sats_claimed = 500
          /\ file.claims[i].claim_id > Len(SeedBodies)

\* C30: reject_agent_claims reports as sats_forfeited the amounts of the
\* claims it moved to rejected, which is what sats_pending + sats_paid lost,
\* as claims_rejected their number, and as new_totals the totals it saved.
NewlyRejected(old, new) ==
    {i \in 1..Len(old.claims) :
        old.claims[i].status # "rejected" /\ new.claims[i].status = "rejected"}

RECURSIVE AmountOf(_, _)
AmountOf(doc, idx) ==
    IF idx = {} THEN 0
    ELSE LET i == CHOOSE j \in idx : TRUE
         IN  doc.claims[i].sats_claimed + AmountOf(doc, idx \ {i})

C30_RejectReport ==
    [][\A c \in Calls :
          (pc[c] = "reject_save" /\ pc'[c] = "done")
          => /\ Len(file'.claims) = Len(file.claims)
             /\ result'[c].sats_forfeited = AmountOf(file, NewlyRejected(file, file'))
             /\ result'[c].sats_forfeited =
                    (file.totals.sats_pending + file.totals.sats_paid)
                    - (file'.totals.sats_pending + file'.totals.sats_paid)
             /\ result'[c].claims_rejected = Cardinality(NewlyRejected(file, file'))
             /\ result'[c].new_totals = file'.totals]_vars

C30_Witness ==
    \E c1, c2 \in Calls :
        /\ Returned(c1) /\ op[c1] = "reject"
        /\ result[c1].claims_rejected = Len(SeedBodies)
        /\ result[c1].sats_forfeited = 500 * Len(SeedBodies)
        /\ Returned(c2) /\ op[c2] = "reject" /\ c2 > c1
        /\ result[c2].sats_forfeited = 0
        /\ file.totals.sats_pending > 0

\* ------------------------------------------------------------------------
\* C31: in every reachable state a claim of the ledger document carries the
\* keys rejected_reason and rejected_at if and only if its status is
\* "rejected".
\* ------------------------------------------------------------------------
HasStamp(claim) == StampKeys \subseteq DOMAIN JsonDumpClaim(claim)

HasNoStamp(claim) == StampKeys \cap DOMAIN JsonDumpClaim(claim) = {}

C31_StampIffRejected ==
    \A i \in 1..Len(file.claims) :
        IF file.claims[i].status = "rejected"
        THEN HasStamp(file.claims[i])
        ELSE HasNoStamp(file.claims[i])

\* a rejection went through: the ledger holds a stamped rejected claim next
\* to a paid or pending one without the stamp
C31_Witness ==
    /\ \E c \in Calls : op[c] = "reject" /\ pc[c] = "done"
    /\ \E i \in 1..Len(file.claims) :
          /\ file.claims[i].status = "rejected"
          /\ HasStamp(file.claims[i])
          /\ file.claims[i].rejected_reason = "fraud"
    /\ \E i \in 1..Len(file.claims) :
          /\ file.claims[i].status # "rejected"
          /\ HasNoStamp(file.claims[i])

\* ------------------------------------------------------------------------
\* C32: validation collects every error: a submission that fails k of the
\* field checks (agent name, payout address, article reference, the
\* platform and the URL of each post, claim kind, proof-of-read slug) is
\* answered with an error list of k entries, one per failing check, and
\* that call neither loads nor saves the ledger document.
\* ------------------------------------------------------------------------
FailedPostChecks(posts) ==
    IF Len(posts) = 0 THEN {<<"posts", 0>>}
    ELSE {<<"platform", i>> : i \in {j \in 1..Len(posts) :
                Lower(posts[j].platform) \notin VALID_PLATFORMS}}
         \cup {<<"url", i>> : i \in {j \in 1..Len(posts) :
                posts[j].url.scheme \notin {"http", "https"} \/ posts[j].url.host = ""}}

FailedChecks(body) ==
    (IF Strip(body.agent_name) = "" THEN {<<"agent_name", 0>>} ELSE {})
    \cup (IF Strip(body.lightning_address) \notin {"bot@ln.co", "lnurl1dp68gurn8ghj7"}
          THEN {<<"lightning_address", 0>>} ELSE {})
    \cup (IF \/ body.article_url.scheme \notin {"http", "https"}
             \/ body.article_url.host # "theagenttimes.com"
          THEN {<<"article_url", 0>>} ELSE {})
    \cup FailedPostChecks(body.posts)
    \cup (IF body.claim_type \notin DOMAIN RATES THEN {<<"claim_type", 0>>} ELSE {})
    \cup (IF Strip(body.article_slug) = "" /\ Len(body.article_url.path) = 0
          THEN {<<"article_slug", 0>>} ELSE {})

\* the entries of an error list
EntryKinds(errors) ==
    {errors[i] : i \in 1..Len(errors)}

C32_AllErrorsCollected ==
    [][\A c \in Calls : \A body \in BodiesValidate :
          (SubmitCall(c, body) /\ FailedChecks(body) # {}) =>
              /\ result'[c].status = "error"
              /\ Len(result'[c].errors) = Cardinality(FailedChecks(body))
              /\ \A f \in FailedChecks(body) :
                    \E e \in EntryKinds(result'[c].errors) :
                        CASE f[1] = "platform" -> e = "post_platform"
                          [] f[1] = "url" -> e = "post_url"
                          [] f[1] = "posts" -> e = "posts_required"
                          [] f[1] = "agent_name" -> e = "agent_name_required"
                          [] f[1] = "lightning_address" ->
                                e \in {"lightning_address_required", "lightning_address_invalid"}
                          [] f[1] = "article_url" ->
                                e \in {"article_url_required", "article_url_invalid"}
                          [] f[1] = "claim_type" ->
                                e \in {"claim_type_required", "claim_type_invalid"}
                          [] OTHER -> e = "article_slug_required"
              /\ file' = file
              /\ data'[c] = data[c]
              /\ data[c] = _empty_data]_vars

\* a submission failing seven checks and one failing three have been
\* answered, each with as many entries
C32_Witness ==
    \A k \in {3, 7} :
        \E c \in Calls :
           /\ op[c] = "submit" /\ pc[c] = "done"
           /\ Cardinality(FailedChecks(arg[c])) = k
           /\ result[c].status = "error"
           /\ Len(result[c].errors) = k

\* ------------------------------------------------------------------------
\* C33: get_claim_status and get_leaderboard leave the persisted document
\* (claims, totals, ban list, rate windows) as it was; get_claim_status
\* answers with the seven projected fields of the claim when the ledger
\* holds the claim_id and with not_found, naming the id, when it does not.
\* ------------------------------------------------------------------------
ProjectedKeys ==
    {"claim_id", "agent_name", "article_url", "claim_type", "sats_claimed",
     "status", "submitted_at"}

HoldersOf(doc, claim_id) ==
    {i \in 1..Len(doc.claims) : doc.claims[i].claim_id = claim_id}

C33_QueriesReadOnly ==
    [][\A c \in Calls :
          /\ \A limit \in LimitsRead :
                GetLeaderboard(c, limit) => (file' = file /\ torn' = torn)
          /\ \A claim_id \in StatusIds :
                GetClaimStatus(c, claim_id) =>
                    /\ file' = file
                    /\ torn' = torn
                    /\ IF HoldersOf(file, claim_id) = {}
                       THEN /\ result'[c].status = "not_found"
                            /\ result'[c].claim_id = claim_id
                            /\ result'[c].projection = <<>>
                       ELSE \E i \in HoldersOf(file, claim_id) :
                               /\ DOMAIN result'[c].projection = ProjectedKeys
                               /\ \A k \in ProjectedKeys :
                                     result'[c].projection[k] = file.claims[i][k]
                               /\ result'[c].status # "not_found"]_vars

\* a claim of the ledger was found and reported, an id the ledger does not
\* hold was answered not_found, and a leaderboard was served, the ledger
\* still holding its claims and its rate windows
C33_Witness ==
    /\ \E c \in Calls :
          /\ op[c] = "status" /\ pc[c] = "done"
          /\ result[c].projection # <<>>
          /\ result[c].projection.claim_id = 1
          /\ result[c].projection.agent_name = "bot"
    /\ \E c \in Calls :
          /\ op[c] = "status" /\ pc[c] = "done"
          /\ result[c].status = "not_found"
    /\ \E c \in Calls :
          /\ op[c] = "leaderboard" /\ pc[c] = "done"
          /\ Len(result[c].leaderboard) = 1
    /\ Len(file.claims) = Len(SeedBodies)
    /\ file.rate_limits # <<>>

\* ------------------------------------------------------------------------
\* C34: the duplicate check does not depend on the letter case of the
\* platform: once the ledger holds a claim of today posted on platform "X",
\* a submission of the same agent for the same article on "X" or "x" that
\* is valid, not banned and under the rate limit is rejected as a duplicate.
\* ------------------------------------------------------------------------
StoredInCapitals(doc, body, t) ==
    \E i \in 1..Len(doc.claims) :
        /\ doc.claims[i].agent_name = Strip(body.agent_name)
        /\ doc.claims[i].article_url = body.article_url
        /\ doc.claims[i].date = t \div SecondsPerDay
        /\ \E j \in 1..Len(doc.claims[i].posts) : doc.claims[i].posts[j].platform = "X"

C34_PlatformCaseIgnored ==
    [][\A c \in Calls :
          (/\ pc[c] = "idle" /\ op'[c] = "submit"
           /\ ValidationErrors(arg'[c]) = <<>>
           /\ ~InBanList(file.banned_agents, arg'[c].agent_name)
           /\ pc'[c] # "save_pruned"
           /\ StoredInCapitals(file, arg'[c], now)
           /\ \E j \in 1..Len(arg'[c].posts) : arg'[c].posts[j].platform \in {"X", "x"})
          => /\ pc'[c] = "done"
             /\ result'[c].status = "error"
             /\ result'[c].errors = <<"duplicate">>]_vars

\* ------------------------------------------------------------------------
\* C35: only an accepted submission uses up quota: the save that stores the
\* claim also appends exactly one timestamp, the claim's, to what is left
\* of the agent's rate window, a submission turned away for validation,
\* ban, rate limit, unknown article or duplicate appends none, and no
\* window of the ledger is ever longer than the cap of 10.
\* ------------------------------------------------------------------------
IsSuffixOf(s, t) ==
    /\ Len(s) <= Len(t)
    /\ s = SubSeq(t, Len(t) - Len(s) + 1, Len(t))

Front(s) == SubSeq(s, 1, Len(s) - 1)

TurnedAwayReasons ==
    {"ban", "rate_limit", "unknown_article", "no_slug_in_url", "duplicate"}

C35_QuotaOnlyOnAcceptance ==
    /\ [](\A a \in AgentNames : Len(WindowOf(file, a)) <= MAX_CLAIMS_PER_AGENT_PER_HOUR)
    /\ [][\A c \in Calls :
            (op'[c] = "submit" /\ pc[c] # "done" /\ pc'[c] = "done") =>
                LET a == Strip(arg'[c].agent_name)
                    old == WindowOf(file, a)
                    new == WindowOf(file', a)
                IN  IF result'[c].status = "pending_verification"
                    THEN /\ Len(new) >= 1
                         /\ new[Len(new)] = IsoFormat(now)
                         /\ IsSuffixOf(Front(new), old)
                         /\ Len(file'.claims) = Len(file.claims) + 1
                         /\ file'.claims[Len(file'.claims)].claim_id = result'[c].claim_id
                         /\ file'.claims[Len(file'.claims)].submitted_at = IsoFormat(now)
                         /\ \A b \in AgentNames \ {a} :
                               WindowOf(file', b) = WindowOf(file, b)
                    ELSE /\ result'[c].status = "error"
                         /\ \/ ValidationErrors(arg'[c]) = result'[c].errors
                            \/ \E r \in TurnedAwayReasons : result'[c].errors = <<r>>
                         /\ IsSuffixOf(new, old)
                         /\ file'.claims = file.claims
                         /\ \A b \in AgentNames \ {a} :
                               WindowOf(file', b) = WindowOf(file, b)]_vars

\* an acceptance has filled the agent's window to the cap, and the same
\* agent's next submission was turned away for the rate limit with the
\* window still at the cap
C35_Witness ==
    \E c1, c2 \in Calls :
        /\ Accepted(c1) /\ Returned(c2) /\ op[c2] = "submit"
        /\ arg[c1].agent_name = arg[c2].agent_name
        /\ result[c2].errors = <<"rate_limit">>
        /\ Len(WindowOf(file, arg[c1].agent_name)) = MAX_CLAIMS_PER_AGENT_PER_HOUR
        /\ WindowOf(file, arg[c1].agent_name)[MAX_CLAIMS_PER_AGENT_PER_HOUR]
              = ClaimOf(c1).submitted_at

\* ------------------------------------------------------------------------
\* C36: a recorded timestamp counts toward the cap exactly when it is
\* strictly less than 3600 seconds older than the clock reading of the
\* check, equal readings counting one each: a valid submission is turned
\* away for the rate limit exactly when 10 entries of the agent's window
\* count, and the check keeps exactly the entries that count.
\* ------------------------------------------------------------------------
AgeOf(stamp, t) == t - (stamp[1] * 86400 + stamp[2])

Counting(doc, a, t) ==
    {i \in 1..Len(WindowOf(doc, a)) : AgeOf(WindowOf(doc, a)[i], t) < 3600}

C36_StrictWindow ==
    [][\A c \in Calls :
          (/\ pc[c] = "idle" /\ op'[c] = "submit"
           /\ ValidationErrors(arg'[c]) = <<>>
           /\ ~InBanList(file.banned_agents, arg'[c].agent_name))
          => LET a == arg'[c].agent_name
             IN  /\ pc'[c] = "save_pruned" <=> Cardinality(Counting(file, a, now)) >= 10
                 /\ Len(WindowOf(data'[c], a)) = Cardinality(Counting(file, a, now))
                 /\ \A i \in 1..Len(WindowOf(data'[c], a)) :
                       AgeOf(WindowOf(data'[c], a)[i], now) < 3600]_vars

\* the tenth submission at one clock reading was accepted and the agent's
\* next one turned away; exactly 3600 seconds after that reading the agent
\* is accepted again
C36_Witness ==
    \E c1, c2, c3 \in Calls :
        /\ Accepted(c1) /\ ClaimOf(c1).submitted_at = IsoFormat(0)
        /\ arg[c1].agent_name = "bot"
        /\ Returned(c2) /\ op[c2] = "submit" /\ arg[c2].agent_name = "bot"
        /\ result[c2].errors = <<"rate_limit">>
        /\ Accepted(c3) /\ ClaimOf(c3).submitted_at = IsoFormat(3600)
        /\ arg[c3].agent_name = "bot"
====
